---- MODULE Spec2Model ----
(***************************************************************************)
(* A model of the `m` command line of makes (src/cli/main/__main__.py):    *)
(* source acquisition (_clone_src and the clone cache under SOURCES_CACHE),*)
(* the local overlay of _get_head, the output enumeration, the main build, *)
(* the cache push, the action script and the exit path of main/cleanup.    *)
(*                                                                         *)
(* Python strings that the code takes apart (the [SOURCE] argument, the    *)
(* output names, paths) are tuples of one-character strings, so that       *)
(* re.match, quote_plus, str.replace and abspath are computed, not assumed.*)
(***************************************************************************)
EXTENDS Integers, Sequences, FiniteSets, TLC

\* ------------------------------------------------------------ bounds

\* Invocations of the command run one after another over one clone cache.
MaxInvocations == 2
\* Advances of the wall clock (each by one of TickSteps).
MaxTicks == 2
\* Invocations that run at the same time over one cache key (SpecConc).
NProcs == 2

\* ------------------------------------------------------------ strings

StartsWith(s, p) == Len(s) >= Len(p) /\ SubSeq(s, 1, Len(p)) = p

Positions(s, c) == {i \in 1..Len(s) : s[i] = c}

Max(S) == CHOOSE x \in S : \A y \in S : y <= x

RECURSIVE Concat(_)
Concat(ss) == IF ss = <<>> THEN <<>> ELSE Head(ss) \o Concat(Tail(ss))

\* str.split("/"): the components between the separators.
RECURSIVE Split(_, _)
Split(s, sep) ==
    IF Positions(s, sep) = {}
    THEN <<s>>
    ELSE LET i == CHOOSE k \in Positions(s, sep) : \A j \in Positions(s, sep) : k <= j
         IN  <<SubSeq(s, 1, i - 1)>> \o Split(SubSeq(s, i + 1, Len(s)), sep)

\* os.path.join(a, b) for a relative b.
join(a, b) ==
    IF a = <<>> \/ a[Len(a)] = "/" THEN a \o b ELSE a \o <<"/">> \o b

\* posixpath.normpath on the components of an absolute path.
RECURSIVE NormComps(_, _)
NormComps(comps, acc) ==
    IF comps = <<>> THEN acc
    ELSE LET c == Head(comps)
         IN  IF c = <<>> \/ c = <<".">>
             THEN NormComps(Tail(comps), acc)
             ELSE IF c = <<".", ".">>
             THEN NormComps(Tail(comps),
                            IF acc = <<>> THEN acc ELSE SubSeq(acc, 1, Len(acc) - 1))
             ELSE NormComps(Tail(comps), Append(acc, c))

RECURSIVE JoinComps(_)
JoinComps(comps) ==
    IF comps = <<>> THEN <<>> ELSE <<"/">> \o Head(comps) \o JoinComps(Tail(comps))

\* CWD: str = getcwd()
CWD == <<"/", "w">>

\* The clone cache's directory.
SOURCES_CACHE == <<"/", "h", "/", "s">>

\* OUT_BASE: str = tempfile.mkdtemp()
OUT_BASE == <<"/", "t", "/", "o">>

\* posixpath.abspath: normpath(join(getcwd(), path)) for a relative path.
abspath(path) ==
    LET full  == IF path # <<>> /\ path[1] = "/" THEN path ELSE join(CWD, path)
        comps == NormComps(Split(full, "/"), <<>>)
    IN  IF comps = <<>> THEN <<"/">> ELSE JoinComps(comps)

\* urllib.parse.quote_plus, on the characters of the model's alphabet: letters,
\* digits and "_.-~" are kept, a space becomes "+", the rest is %XX.
QuoteChar(c) ==
    CASE c = "/" -> <<"%", "2", "F">>
      [] c = "@" -> <<"%", "4", "0">>
      [] c = ":" -> <<"%", "3", "A">>
      [] c = "%" -> <<"%", "2", "5">>
      [] c = "+" -> <<"%", "2", "B">>
      [] c = " " -> <<"+">>
      [] OTHER   -> <<c>>

RECURSIVE url_quote(_)
url_quote(s) == IF s = <<>> THEN <<>> ELSE QuoteChar(Head(s)) \o url_quote(Tail(s))

\* str.replace(old, new) for a one-character old.
RECURSIVE Replace(_, _, _)
Replace(s, old, new) ==
    IF s = <<>> THEN <<>>
    ELSE (IF Head(s) = old THEN new ELSE <<Head(s)>>) \o Replace(Tail(s), old, new)

\* ------------------------------------------------------------ reference parsing

is_src_local(src) == abspath(src) = CWD

NoMatch == [matched |-> FALSE, cache_key |-> <<>>, remote |-> <<>>, rev |-> <<>>]

\* re.match(r"^<prefix>(?P<owner>.*)/(?P<repo>.*)@(?P<rev>.*)$", src): both
\* groups are greedy, so repo ends at the last "@" and owner at the last "/"
\* before it.
HostedGroups(prefix, src) ==
    LET body    == SubSeq(src, Len(prefix) + 1, Len(src))
        ats     == Positions(body, "@")
        slashes == {i \in Positions(body, "/") : \E j \in ats : j > i}
    IN  IF StartsWith(src, prefix) /\ slashes # {}
        THEN LET i == Max(slashes)
                 j == Max(ats)
             IN  [matched |-> TRUE,
                  owner   |-> SubSeq(body, 1, i - 1),
                  repo    |-> SubSeq(body, i + 1, j - 1),
                  rev     |-> SubSeq(body, j + 1, Len(body))]
        ELSE [matched |-> FALSE, owner |-> <<>>, repo |-> <<>>, rev |-> <<>>]

GithubPrefix == <<"g", "i", "t", "h", "u", "b", ":">>
GitlabPrefix == <<"g", "i", "t", "l", "a", "b", ":">>
GithubUrl == <<"h", "t", "t", "p", "s", ":", "/", "/", "g", "i", "t", "h", "u", "b", ".", "c", "o", "m", "/">>
GitlabUrl == <<"h", "t", "t", "p", "s", ":", "/", "/", "g", "i", "t", "l", "a", "b", ".", "c", "o", "m", "/">>

_clone_src_github(src) ==
    LET m     == HostedGroups(GithubPrefix, src)
        owner == url_quote(m.owner)
        repo  == url_quote(m.repo)
        rev   == url_quote(m.rev)
    IN  IF m.matched
        THEN [matched   |-> TRUE,
              cache_key |-> <<"g", "i", "t", "h", "u", "b", "-">> \o owner \o <<"-">> \o repo \o <<"-">> \o rev,
              remote    |-> GithubUrl \o owner \o <<"/">> \o repo,
              rev       |-> rev]
        ELSE NoMatch

_clone_src_gitlab(src) ==
    LET m     == HostedGroups(GitlabPrefix, src)
        owner == url_quote(m.owner)
        repo  == url_quote(m.repo)
        rev   == url_quote(m.rev)
    IN  IF m.matched
        THEN [matched   |-> TRUE,
              cache_key |-> <<"g", "i", "t", "l", "a", "b", "-">> \o owner \o <<"-">> \o repo \o <<"-">> \o rev,
              remote    |-> GitlabUrl \o owner \o <<"/">> \o repo \o <<".", "g", "i", "t">>,
              rev       |-> rev]
        ELSE NoMatch

\* The if/elif chain of _clone_src: (cache_key, remote, rev), or no match.
ParseSrc(src) ==
    IF is_src_local(src)
    THEN [matched |-> TRUE, cache_key |-> <<>>, remote |-> abspath(src),
          rev |-> <<"H", "E", "A", "D">>]
    ELSE IF _clone_src_github(src).matched THEN _clone_src_github(src)
    ELSE _clone_src_gitlab(src)

\* ------------------------------------------------------------ inputs

\* cached_since <= 86400.0
TTL == 86400

\* The clock advances by a second, or by the whole time to live.
TickSteps == {1, TTL}

\* What a child process returns (process.returncode of a child that exits).
\* The code reads the main build's and the action script's as a number.
RetCodes == {0, 1, 7}
\* It reads git's and the two enumerations' only as zero or not, and the
\* push's not at all.
ToolCodes == {0, 1}

\* sys.exit(code): the exit status the parent of this process sees.
ExitStatus(code) == code % 256

NoExit == 0 - 1

\* cached_since before _clone_src_cache_get has computed it.
NoAge == 0 - 1

SrcLocal  == <<".">>
SrcGithub == GithubPrefix \o <<"o", "/", "r", "@", "v">>
SrcGitlab == GitlabPrefix \o <<"o", "/", "r", "@", "v">>
SrcBad    == <<"x">>
Sources   == {SrcLocal, SrcGithub, SrcGitlab, SrcBad}

\* Output names; two of them are hidden from the help screen.
AttrA   == <<"/", "a">>
AttrB   == <<"/", "b", "/", "c">>
AttrAll == <<"_", "_", "a", "l", "l", "_", "_">>
AttrSecrets ==
    <<"/", "s", "e", "c", "r", "e", "t", "s", "F", "o", "r", "A", "w", "s", "F", "r", "o", "m",
      "E", "n", "v", "/", "_", "_", "d", "e", "f", "a", "u", "l", "t", "_", "_">>

\* What json.load gives _get_attrs: the project's outputs.
Manifests == {<<>>, <<AttrAll, AttrB>>, <<AttrA, AttrSecrets, AttrB>>}

\* [ARGS]...
ArgX == <<"-", "-", "x">>
ArgY == <<"y">>
\* [OUTPUT] [ARGS]...
Requests == {<<AttrA>>, <<AttrB, ArgY, ArgX>>}

Prog == <<"m">>

\* sys.argv
Argvs ==
    {<<Prog>>}
        \cup {<<Prog, s>> : s \in Sources}
        \cup {<<Prog, s>> \o r : s \in Sources, r \in Requests}

\* os.environ, as far as cache_push reads it.
Environs == SUBSET {"CACHIX_AUTH_TOKEN"}

\* What json.load gives _get_cache: records {type, name, url, pubKey}.
CachixRec == [type |-> "cachix", name |-> "n1", url |-> "u1", pubKey |-> "k1"]
OtherRec  == [type |-> "other", name |-> "n2", url |-> "u2", pubKey |-> "k2"]
SecondCachixRec == [type |-> "cachix", name |-> "n3", url |-> "u3", pubKey |-> "k3"]
CacheConfigs == {<<>>, <<OtherRec>>, <<OtherRec, CachixRec, SecondCachixRec>>}

\* Files of a working copy: a path's content, or Absent.
Paths  == {"a", "b"}
Absent == "absent"

\* sorted(paths)
SortedPaths == <<"a", "b">>

\* The tree of the pinned revision at a hosted remote.
OriginTree == [p \in Paths |-> "c"]

\* The working copy in CWD: the tree of HEAD, the index and the files on disk.
\* "c" is committed content, "s" and "w" are other contents.
Repos ==
    [head : [Paths -> {Absent, "c"}],
     index : [Paths -> {Absent, "c", "s"}],
     wd : [Paths -> {Absent, "c", "s", "w"}]]

CleanRepo == [head |-> OriginTree, index |-> OriginTree, wd |-> OriginTree]

\* A working copy with a staged edit of "a" and an unstaged deletion of "b".
DirtyRepo ==
    [head  |-> OriginTree,
     index |-> [p \in Paths |-> IF p = "a" THEN "s" ELSE "c"],
     wd    |-> [p \in Paths |-> IF p = "a" THEN "s" ELSE Absent]]

\* A working copy where "a" was added to the index (HEAD has no "a") and
\* then deleted from disk.
AddedGoneRepo ==
    [head  |-> [p \in Paths |-> IF p = "a" THEN Absent ELSE "c"],
     index |-> OriginTree,
     wd    |-> [p \in Paths |-> IF p = "a" THEN Absent ELSE "c"]]

\* The working copies an invocation on a local reference meets.
LocalRepos == {CleanRepo, DirtyRepo, AddedGoneRepo}

\* Temporary names: tempfile.TemporaryDirectory(prefix="makes-").name and the
\* two tempfile.mktemp() of _get_attrs and _get_cache.
HeadDir  == <<"/", "t", "/", "m">>
AttrsOut == <<"/", "t", "/", "a">>
CacheOut == <<"/", "t", "/", "c">>

\* ------------------------------------------------------------ state

VARIABLES
    procs,          \* SpecConc: the invocations that run _clone_src at the same time
    call,           \* SpecPure: a call of a pure function, its arguments and its result
    environ,        \* os.environ: the names of the variables that are set
    invocation,     \* how many invocations have started
    now,            \* time()
    ticks,          \* how often the clock has advanced
    sources_cache,  \* SOURCES_CACHE: cache key -> [ctime, tree]
    repo,           \* the working copy in CWD
    argv,           \* sys.argv
    pc,             \* where the invocation is
    exc,            \* the exception being raised
    exitcode,       \* the exit status, once main has ended
    cache_key, remote, rev,   \* locals of _clone_src
    cached_since,   \* cached_since of _clone_src_cache_get, once it is computed
    head,           \* the scratch checkout: [git, files]
    paths,          \* paths: Set[str] of _get_head
    attrs,          \* attrs of cli
    cache,          \* cache of cli
    code,           \* code of cli
    output,         \* the files of the main build's output
    cmds,           \* the child processes run, in order: [cmd, arg, rc]
    stderr,         \* what _log printed
    ON_EXIT,        \* the directories the registered cleanup actions remove
    tmp             \* the temporary files and directories that exist

clockVars  == <<now, ticks>>
cloneVars  == <<cache_key, remote, rev, cached_since>>
cliVars    == <<attrs, cache, code, output>>
vars ==
    <<procs, call, environ, invocation, now, ticks, sources_cache, repo, argv, pc, exc, exitcode,
      cache_key, remote, rev, cached_since, head, paths, attrs, cache, code,
      output, cmds, stderr, ON_EXIT, tmp>>

NoExc == [type |-> "none", msg |-> "", code |-> 0]
Error(msg) == [type |-> "Error", msg |-> msg, code |-> 1]
SystemExit(c) == [type |-> "SystemExit", msg |-> "", code |-> c]
\* An exception neither cli nor main catches (FileNotFoundError, ...).
Uncaught(msg) == [type |-> "Uncaught", msg |-> msg, code |-> 1]

NoTree == [p \in Paths |-> Absent]
NoHead == [git |-> FALSE, fetched |-> NoTree, files |-> NoTree]

\* The directories SOURCES_CACHE can hold, and one that is not there.
CacheKeys == {ParseSrc(s).cache_key : s \in {SrcGithub, SrcGitlab}}
\* An entry is a directory (present), copied to its end or not (complete),
\* with the time of its last change (getctime), the time the refresh made it
\* (born) and the tree of its repository.
NoEntry == [present |-> FALSE, complete |-> FALSE, ctime |-> 0, born |-> 0, tree |-> NoTree]
Entry(t, tree) == [present |-> TRUE, complete |-> TRUE, ctime |-> t, born |-> t, tree |-> tree]

\* cached: str = join(SOURCES_CACHE, cache_key)
Cached(key) == join(SOURCES_CACHE, key)

Line(text, val) == [text |-> text, val |-> val]
Blank == Line("", <<>>)

Cmd(c, arg, rc) == [cmd |-> c, arg |-> arg, rc |-> rc]

src  == argv[2]
attr == argv[3]

\* The state of a process that has not started: the module's globals.
Fresh ==
    /\ environ = {}
    /\ exc = NoExc
    /\ exitcode = NoExit
    /\ cache_key = <<>> /\ remote = <<>> /\ rev = <<>> /\ cached_since = NoAge
    /\ head = NoHead
    /\ paths = {}
    /\ attrs = <<>> /\ cache = <<>> /\ code = NoExit /\ output = {}
    /\ cmds = <<>>
    /\ stderr = <<>>
    /\ ON_EXIT = <<>>
    /\ tmp = {}

\* No pure function has been called.
NoCall == [fn |-> "none"]

\* _clone_src of one of the concurrent invocations, before it starts.
ProcStart == [pc |-> "git_init", remote |-> <<>>, cached_since |-> NoAge,
              tree |-> NoTree, cause |-> ""]

\* Before the first invocation, but for the clone cache and the pure call.
Globals ==
    /\ procs = [p \in 1..NProcs |-> ProcStart]
    /\ invocation = 0
    /\ now = 0
    /\ ticks = 0
    /\ repo = CleanRepo
    /\ argv = <<Prog>>
    /\ pc = "idle"
    /\ Fresh

\* Before the first invocation, but for the clone cache.
InitButCache ==
    /\ Globals
    /\ call = NoCall

Init ==
    /\ InitButCache
    /\ sources_cache = [k \in CacheKeys |-> NoEntry]

\* ------------------------------------------------------------ helpers of cli

ListMode == Len(argv) = 2

\* args = args[3:]
args == SubSeq(argv, 4, Len(argv))

\* out: str = join(OUT_BASE, f"result{attr.replace('/', '-')}")
out == join(OUT_BASE, <<"r", "e", "s", "u", "l", "t">> \o Replace(attr, "/", <<"-">>))

Banner == <<Line("Makes v21.10", <<>>), Blank>>

HiddenAttrs == {AttrAll, AttrSecrets}

\* The listing with `break` for `continue`: it stops at the first hidden name.
RECURSIVE AttrLines_Break(_)
AttrLines_Break(as) ==
    IF as = <<>> \/ Head(as) \in HiddenAttrs THEN <<>>
    ELSE <<Line("  ", Head(as))>> \o AttrLines_Break(Tail(as))

\* for attr in attrs: if attr not in {...}: _log(f"  {attr}")
RECURSIVE AttrLines(_)
AttrLines(as) ==
    IF as = <<>> THEN <<>>
    ELSE (IF Head(as) \in HiddenAttrs THEN <<>> ELSE <<Line("  ", Head(as))>>)
             \o AttrLines(Tail(as))

\* What _help_and_exit prints; s = <<>> stands for a src that is None or empty.
HelpLines(s, hasAttrs, as, hasExc) ==
    <<Line("Usage: m [SOURCE] [OUTPUT] [ARGS]...", <<>>)>>
        \o (IF s # <<>>
            THEN <<Blank, Line("[SOURCE] is currently: ", s)>>
            ELSE <<Blank, Line("[SOURCE] can be:", <<>>)>>)
        \o (IF ~hasAttrs
            THEN <<Blank, Line("[OUTPUT] options will be listed when you provide a [SOURCE]", <<>>)>>
            ELSE <<Blank, Line("[OUTPUT] can be:", <<>>)>> \o AttrLines(as))
        \o (IF hasExc
            THEN <<Blank>>
            ELSE <<Blank, Line("[ARGS] are passed to the output (if supported).", <<>>)>>)

\* raise: an Error raised under the try of cli (no [OUTPUT] given) is handled
\* by its except clause; everything else reaches main.
Raise(e) ==
    /\ exc' = e
    /\ pc' = IF e.type = "Error" /\ ListMode THEN "cli_except" ELSE "main"

Run(c, arg, rc) == cmds' = Append(cmds, Cmd(c, arg, rc))

\* ------------------------------------------------------------ the environment

\* The clock is read by _clone_src_cache_get (time()) and by the refresh (the
\* new entry's ctime): it advances between invocations and before the refresh.
Tick ==
    /\ ticks < MaxTicks
    /\ pc \in {"idle", "cache_refresh"}
    /\ \E d \in TickSteps : now' = now + d
    /\ ticks' = ticks + 1
    /\ UNCHANGED <<procs, call, environ, invocation, sources_cache, repo, argv, pc, exc, exitcode, cloneVars,
                   head, paths, cliVars, cmds, stderr, ON_EXIT, tmp>>

\* A process starts: the module's globals (lines 48-75), sys.argv.
Start ==
    /\ pc = "idle"
    /\ invocation < MaxInvocations
    /\ invocation' = invocation + 1
    /\ \E a \in Argvs :
        /\ argv' = a
        \* The working copy matters to an invocation on a local reference only.
        /\ repo' \in IF Len(a) >= 2 /\ is_src_local(a[2]) THEN LocalRepos ELSE {CleanRepo}
        \* The credential matters to an invocation with an [OUTPUT] only.
        /\ environ' \in IF Len(a) >= 3 THEN Environs ELSE {{}}
    /\ pc' = "cli"
    /\ exc' = NoExc
    /\ exitcode' = NoExit
    /\ cache_key' = <<>> /\ remote' = <<>> /\ rev' = <<>> /\ cached_since' = NoAge
    /\ head' = NoHead
    /\ paths' = {}
    /\ attrs' = <<>> /\ cache' = <<>> /\ code' = NoExit /\ output' = {}
    /\ cmds' = <<>>
    /\ stderr' = <<>>
    /\ ON_EXIT' = <<OUT_BASE>>
    /\ tmp' = {OUT_BASE}
    /\ UNCHANGED <<procs, call, clockVars, sources_cache>>

\* ------------------------------------------------------------ cli, no [SOURCE]

\* CliUsage whose help screen ends the process with status 0.
CliUsage_ExitZero ==
    /\ pc = "cli"
    /\ Len(argv) < 2
    /\ stderr' = stderr \o Banner \o HelpLines(<<>>, FALSE, <<>>, FALSE)
    /\ Raise(SystemExit(0))
    /\ UNCHANGED <<procs, call, environ, invocation, clockVars, sources_cache, repo, argv, exitcode, cloneVars,
                   head, paths, cliVars, cmds, ON_EXIT, tmp>>

\* if not args[1:]: _help_and_exit()
CliUsage ==
    /\ pc = "cli"
    /\ Len(argv) < 2
    /\ stderr' = stderr \o Banner \o HelpLines(<<>>, FALSE, <<>>, FALSE)
    /\ Raise(SystemExit(1))
    /\ UNCHANGED <<procs, call, environ, invocation, clockVars, sources_cache, repo, argv, exitcode, cloneVars,
                   head, paths, cliVars, cmds, ON_EXIT, tmp>>

\* ------------------------------------------------------------ _clone_src

\* _get_head -> _clone_src, up to the reference's parse.
CloneSrc ==
    /\ pc = "cli"
    /\ Len(argv) >= 2
    /\ stderr' = stderr \o Banner
    /\ tmp' = tmp \cup {HeadDir}
    /\ ON_EXIT' = Append(ON_EXIT, HeadDir)
    /\ LET m == ParseSrc(src)
       IN  IF m.matched
           THEN /\ cache_key' = m.cache_key
                /\ remote' = m.remote
                /\ rev' = m.rev
                /\ cached_since' = cached_since
                /\ pc' = "git_init"
                /\ exc' = exc
           ELSE /\ Raise(Error("Unable to parse [SOURCE]"))
                /\ UNCHANGED cloneVars
    /\ UNCHANGED <<procs, call, environ, invocation, clockVars, sources_cache, repo, argv, exitcode,
                   head, paths, cliVars, cmds>>

GitInit ==
    /\ pc = "git_init"
    /\ \E rc \in ToolCodes :
        /\ Run("git init", HeadDir, rc)
        /\ IF rc # 0
           THEN Raise(Error("Unable to git init")) /\ head' = head
           ELSE /\ head' = [NoHead EXCEPT !.git = TRUE]
                /\ pc' = "cache_get"
                /\ exc' = exc
    /\ UNCHANGED <<procs, call, environ, invocation, clockVars, sources_cache, repo, argv, exitcode, cloneVars,
                   paths, cliVars, stderr, ON_EXIT, tmp>>

\* The lookup that touches the entry it returns: a hit renews its timestamp.
_clone_src_cache_get_Touch ==
    /\ pc = "cache_get"
    /\ IF cache_key # <<>>
       THEN IF sources_cache[cache_key].present
            THEN /\ cached_since' = now - sources_cache[cache_key].ctime
                 /\ IF cached_since' <= TTL
                    THEN /\ stderr' = stderr \o <<Line("Using cached version of: ", src), Blank>>
                         /\ remote' = Cached(cache_key)
                         /\ sources_cache' = [sources_cache EXCEPT ![cache_key].ctime = now]
                    ELSE /\ sources_cache' = [sources_cache EXCEPT ![cache_key] = NoEntry]
                         /\ UNCHANGED <<stderr, remote>>
            ELSE /\ stderr' = stderr \o <<Line("Downloading: ", src)>>
                 /\ UNCHANGED <<sources_cache, remote, cached_since>>
       ELSE UNCHANGED <<stderr, remote, sources_cache, cached_since>>
    /\ pc' = "git_fetch"
    /\ UNCHANGED <<procs, call, environ, invocation, clockVars, repo, argv, exc, exitcode, cache_key, rev,
                   head, paths, cliVars, cmds, ON_EXIT, tmp>>

\* The lookup with `<` for `<=`: an entry aged exactly TTL counts as stale.
_clone_src_cache_get_Strict ==
    /\ pc = "cache_get"
    /\ IF cache_key # <<>>
       THEN IF sources_cache[cache_key].present
            THEN /\ cached_since' = now - sources_cache[cache_key].ctime
                 /\ IF cached_since' < TTL
                    THEN /\ stderr' = stderr \o <<Line("Using cached version of: ", src), Blank>>
                         /\ remote' = Cached(cache_key)
                         /\ sources_cache' = sources_cache
                    ELSE /\ sources_cache' = [sources_cache EXCEPT ![cache_key] = NoEntry]
                         /\ UNCHANGED <<stderr, remote>>
            ELSE /\ stderr' = stderr \o <<Line("Downloading: ", src)>>
                 /\ UNCHANGED <<sources_cache, remote, cached_since>>
       ELSE UNCHANGED <<stderr, remote, sources_cache, cached_since>>
    /\ pc' = "git_fetch"
    /\ UNCHANGED <<procs, call, environ, invocation, clockVars, repo, argv, exc, exitcode, cache_key, rev,
                   head, paths, cliVars, cmds, ON_EXIT, tmp>>

\* The clone cache's lookup: the remote to fetch from.
_clone_src_cache_get ==
    /\ pc = "cache_get"
    /\ IF cache_key # <<>>
       THEN IF sources_cache[cache_key].present
            THEN /\ cached_since' = now - sources_cache[cache_key].ctime
                 /\ IF cached_since' <= TTL
                    THEN /\ stderr' = stderr \o <<Line("Using cached version of: ", src), Blank>>
                         /\ remote' = Cached(cache_key)
                         /\ sources_cache' = sources_cache
                    ELSE /\ sources_cache' = [sources_cache EXCEPT ![cache_key] = NoEntry]
                         /\ UNCHANGED <<stderr, remote>>
            ELSE /\ stderr' = stderr \o <<Line("Downloading: ", src)>>
                 /\ UNCHANGED <<sources_cache, remote, cached_since>>
       ELSE UNCHANGED <<stderr, remote, sources_cache, cached_since>>
    /\ pc' = "git_fetch"
    /\ UNCHANGED <<procs, call, environ, invocation, clockVars, repo, argv, exc, exitcode, cache_key, rev,
                   head, paths, cliVars, cmds, ON_EXIT, tmp>>

\* The tree a fetch of rev from `remote` brings: the clone cache's entry, the
\* HEAD of the working copy, or the hosted repository's revision.
RemoteTree ==
    IF cache_key # <<>> /\ remote = Cached(cache_key) THEN sources_cache[cache_key].tree
    ELSE IF cache_key = <<>> THEN repo.head
    ELSE OriginTree

\* GitFetch that goes on to the checkout whatever git fetch returned.
GitFetch_Continue ==
    /\ pc = "git_fetch"
    /\ \E rc \in ToolCodes :
        /\ Run("git fetch", remote, rc)
        /\ head' = [head EXCEPT !.fetched = RemoteTree]
        /\ pc' = "git_checkout"
        /\ exc' = exc
    /\ UNCHANGED <<procs, call, environ, invocation, clockVars, sources_cache, repo, argv, exitcode, cloneVars,
                   paths, cliVars, stderr, ON_EXIT, tmp>>

GitFetch ==
    /\ pc = "git_fetch"
    /\ \E rc \in ToolCodes :
        /\ Run("git fetch", remote, rc)
        /\ IF rc # 0
           THEN Raise(Error("Unable to git fetch")) /\ head' = head
           ELSE /\ head' = [head EXCEPT !.fetched = RemoteTree]
                /\ pc' = "git_checkout"
                /\ exc' = exc
    /\ UNCHANGED <<procs, call, environ, invocation, clockVars, sources_cache, repo, argv, exitcode, cloneVars,
                   paths, cliVars, stderr, ON_EXIT, tmp>>

GitCheckout ==
    /\ pc = "git_checkout"
    /\ \E rc \in ToolCodes :
        /\ Run("git checkout", rev, rc)
        /\ IF rc # 0
           THEN Raise(Error("Unable to git checkout")) /\ head' = head
           ELSE /\ head' = [head EXCEPT !.files = head.fetched]
                /\ pc' = "cache_refresh"
                /\ exc' = exc
    /\ UNCHANGED <<procs, call, environ, invocation, clockVars, sources_cache, repo, argv, exitcode, cloneVars,
                   paths, cliVars, stderr, ON_EXIT, tmp>>

\* The refresh without `not exists(cached)`: it replaces an entry.
_clone_src_cache_refresh_Overwrite ==
    /\ pc = "cache_refresh"
    /\ IF cache_key # <<>>
       THEN sources_cache' = [sources_cache EXCEPT ![cache_key] = Entry(now, head.files)]
       ELSE sources_cache' = sources_cache
    /\ pc' = IF is_src_local(src) THEN "diff_cached" ELSE "rm_git"
    /\ UNCHANGED <<procs, call, environ, invocation, clockVars, repo, argv, exc, exitcode, cloneVars,
                   head, paths, cliVars, cmds, stderr, ON_EXIT, tmp>>

\* The clone cache's refresh, and the return to _get_head.
_clone_src_cache_refresh ==
    /\ pc = "cache_refresh"
    /\ IF cache_key # <<>> /\ ~sources_cache[cache_key].present
       THEN sources_cache' = [sources_cache EXCEPT ![cache_key] = Entry(now, head.files)]
       ELSE sources_cache' = sources_cache
    /\ pc' = IF is_src_local(src) THEN "diff_cached" ELSE "rm_git"
    /\ UNCHANGED <<procs, call, environ, invocation, clockVars, repo, argv, exc, exitcode, cloneVars,
                   head, paths, cliVars, cmds, stderr, ON_EXIT, tmp>>

\* ------------------------------------------------------------ _get_head

\* git -C src diff --cached --name-only: the paths whose index entry differs
\* from HEAD's.
DiffCached(r) == {p \in Paths : r.index[p] # r.head[p]}

\* git -C src ls-files --modified: the indexed paths whose file differs from
\* the index, deleted files included.
LsModified(r) == {p \in Paths : r.index[p] # Absent /\ r.wd[p] # r.index[p]}

GitDiffCached ==
    /\ pc = "diff_cached"
    /\ \E rc \in ToolCodes :
        /\ Run("git diff --cached", src, rc)
        /\ IF rc # 0
           THEN Raise(Error("Unable to list files")) /\ paths' = paths
           ELSE /\ paths' = paths \cup DiffCached(repo)
                /\ pc' = "ls_modified"
                /\ exc' = exc
    /\ UNCHANGED <<procs, call, environ, invocation, clockVars, sources_cache, repo, argv, exitcode, cloneVars,
                   head, cliVars, stderr, ON_EXIT, tmp>>

GitLsModified ==
    /\ pc = "ls_modified"
    /\ \E rc \in ToolCodes :
        /\ Run("git ls-files --modified", src, rc)
        /\ IF rc # 0
           THEN Raise(Error("Unable to list files")) /\ paths' = paths
           ELSE /\ paths' = paths \cup LsModified(repo)
                /\ pc' = "copy_paths"
                /\ exc' = exc
    /\ UNCHANGED <<procs, call, environ, invocation, clockVars, sources_cache, repo, argv, exitcode, cloneVars,
                   head, cliVars, stderr, ON_EXIT, tmp>>

\* One turn of `for path in sorted(paths)`: shutil.copy of a file that exists
\* in the working copy, os.remove of the checkout's file otherwise. remove
\* raises FileNotFoundError when the checkout has no such file.
CopyPath(r, st, p) ==
    IF r.wd[p] # Absent
    THEN [st EXCEPT !.files[p] = r.wd[p]]
    ELSE IF st.files[p] # Absent
    THEN [st EXCEPT !.files[p] = Absent]
    ELSE [st EXCEPT !.ok = FALSE]

\* The loop over sorted(paths), up to the first exception.
RECURSIVE CopyPaths(_, _, _, _)
CopyPaths(r, st, ps, order) ==
    IF order = <<>> \/ ~st.ok THEN st
    ELSE CopyPaths(r,
                   IF Head(order) \in ps THEN CopyPath(r, st, Head(order)) ELSE st,
                   ps, Tail(order))

\* # Copy paths to head
CopyPathsToHead ==
    /\ pc = "copy_paths"
    /\ LET st == CopyPaths(repo, [ok |-> TRUE, files |-> head.files], paths, SortedPaths)
       IN  /\ head' = [head EXCEPT !.files = st.files]
           /\ IF st.ok
              THEN pc' = "rm_git" /\ exc' = exc
              ELSE Raise(Uncaught("FileNotFoundError"))
    /\ UNCHANGED <<procs, call, environ, invocation, clockVars, sources_cache, repo, argv, exitcode, cloneVars,
                   paths, cliVars, cmds, stderr, ON_EXIT, tmp>>

\* shutil.rmtree(join(head, ".git")); return head
RmGit ==
    /\ pc = "rm_git"
    /\ head' = [head EXCEPT !.git = FALSE]
    /\ pc' = "get_attrs"
    /\ UNCHANGED <<procs, call, environ, invocation, clockVars, sources_cache, repo, argv, exc, exitcode, cloneVars,
                   paths, cliVars, cmds, stderr, ON_EXIT, tmp>>

\* ------------------------------------------------------------ the enumerations

_get_attrs ==
    /\ pc = "get_attrs"
    /\ \E rc \in ToolCodes :
        /\ Run("nix build config.attrs", AttrsOut, rc)
        /\ IF rc = 0
           THEN /\ \E m \in Manifests : attrs' = m
                /\ tmp' = tmp \cup {AttrsOut}
                /\ pc' = "got_attrs"
                /\ exc' = exc
           ELSE /\ Raise(Error("Unable to list project outputs"))
                /\ UNCHANGED <<attrs, tmp>>
    /\ UNCHANGED <<procs, call, environ, invocation, clockVars, sources_cache, repo, argv, exitcode, cloneVars,
                   head, paths, cache, code, output, stderr, ON_EXIT>>

\* except Error as exc: _help_and_exit(src, exc=exc)
CliExcept ==
    /\ pc = "cli_except"
    /\ stderr' = stderr \o HelpLines(src, FALSE, <<>>, TRUE)
    /\ pc' = "main"
    /\ UNCHANGED <<procs, call, environ, invocation, clockVars, sources_cache, repo, argv, exc, exitcode, cloneVars,
                   head, paths, cliVars, cmds, ON_EXIT, tmp>>

\* CliList whose help screen ends the process with status 0.
CliList_ExitZero ==
    /\ pc = "got_attrs"
    /\ ListMode
    /\ stderr' = stderr \o HelpLines(src, TRUE, attrs, FALSE)
    /\ Raise(SystemExit(0))
    /\ UNCHANGED <<procs, call, environ, invocation, clockVars, sources_cache, repo, argv, exitcode, cloneVars,
                   head, paths, cliVars, cmds, ON_EXIT, tmp>>

\* else: _help_and_exit(src, attrs)
CliList ==
    /\ pc = "got_attrs"
    /\ ListMode
    /\ stderr' = stderr \o HelpLines(src, TRUE, attrs, FALSE)
    /\ Raise(SystemExit(1))
    /\ UNCHANGED <<procs, call, environ, invocation, clockVars, sources_cache, repo, argv, exitcode, cloneVars,
                   head, paths, cliVars, cmds, ON_EXIT, tmp>>

\* CliSelect without the membership test.
CliSelect_NoCheck ==
    /\ pc = "got_attrs"
    /\ ~ListMode
    /\ pc' = "get_cache"
    /\ UNCHANGED <<procs, call, environ, invocation, clockVars, sources_cache, repo, argv, exc, exitcode, cloneVars,
                   head, paths, cliVars, cmds, stderr, ON_EXIT, tmp>>

\* if attr not in attrs: _help_and_exit(src, attrs)
CliSelect ==
    /\ pc = "got_attrs"
    /\ ~ListMode
    /\ IF \E i \in 1..Len(attrs) : attrs[i] = attr
       THEN /\ pc' = "get_cache"
            /\ UNCHANGED <<stderr, exc>>
       ELSE /\ stderr' = stderr \o HelpLines(src, TRUE, attrs, FALSE)
            /\ Raise(SystemExit(1))
    /\ UNCHANGED <<procs, call, environ, invocation, clockVars, sources_cache, repo, argv, exitcode, cloneVars,
                   head, paths, cliVars, cmds, ON_EXIT, tmp>>

_get_cache ==
    /\ pc = "get_cache"
    /\ \E rc \in ToolCodes :
        /\ Run("nix build config.cacheAsJson", CacheOut, rc)
        /\ IF rc = 0
           THEN /\ \E c \in CacheConfigs : cache' = c
                /\ tmp' = tmp \cup {CacheOut}
                /\ pc' = "build"
                /\ exc' = exc
           ELSE /\ Raise(Error("Unable to get cache config"))
                /\ UNCHANGED <<cache, tmp>>
    /\ UNCHANGED <<procs, call, environ, invocation, clockVars, sources_cache, repo, argv, exitcode, cloneVars,
                   head, paths, attrs, code, output, stderr, ON_EXIT>>

\* ------------------------------------------------------------ build, push, action

\* What a successful build leaves behind its out-link: with the action
\* script, or without.
Outputs == {{}, {"makes-action.sh"}}

\* Build without the `if code == 0`: push and action follow any build.
Build_NoCodeCheck ==
    /\ pc = "build"
    /\ \E rc \in RetCodes :
        /\ Run("nix build config.outputs", out, rc)
        /\ code' = rc
        /\ \E o \in Outputs : output' = o
        /\ pc' = "cache_push"
        /\ exc' = exc
    /\ UNCHANGED <<procs, call, environ, invocation, clockVars, sources_cache, repo, argv, exitcode, cloneVars,
                   head, paths, attrs, cache, stderr, ON_EXIT, tmp>>

\* The main build, and the `if code == 0` after it.
Build ==
    /\ pc = "build"
    /\ \E rc \in RetCodes :
        /\ Run("nix build config.outputs", out, rc)
        /\ code' = rc
        /\ IF rc = 0
           THEN /\ \E o \in Outputs : output' = o
                /\ pc' = "cache_push"
                /\ exc' = exc
           ELSE /\ Raise(SystemExit(rc))
                /\ output' = output
    /\ UNCHANGED <<procs, call, environ, invocation, clockVars, sources_cache, repo, argv, exitcode, cloneVars,
                   head, paths, attrs, cache, stderr, ON_EXIT, tmp>>

\* PushTargets without the test of the credential.
PushTargets_NoCredential(token) ==
    {i \in 1..Len(cache) : cache[i].type = "cachix"}

\* The records of the cache configuration that cache_push would push to.
PushTargets(token) ==
    {i \in 1..Len(cache) : cache[i].type = "cachix" /\ token}

\* cache_push that ends the process with the push's code when it is not 0.
cache_push_Escalates ==
    /\ pc = "cache_push"
    /\ \E rc \in ToolCodes :
        LET token == "CACHIX_AUTH_TOKEN" \in environ
        IN
        IF PushTargets(token) # {}
        THEN LET i == CHOOSE k \in PushTargets(token) : \A j \in PushTargets(token) : k <= j
             IN  /\ stderr' = stderr \o <<Line("Pushing to cache", <<>>)>>
                 /\ Run("cachix push", <<cache[i].name>>, rc)
                 /\ IF rc # 0
                    THEN Raise(SystemExit(rc))
                    ELSE pc' = "execute_action" /\ exc' = exc
        ELSE UNCHANGED <<stderr, cmds, exc>> /\ pc' = "execute_action"
    /\ UNCHANGED <<procs, call, environ, invocation, clockVars, sources_cache, repo, argv, exitcode, cloneVars,
                   head, paths, cliVars, ON_EXIT, tmp>>

cache_push ==
    /\ pc = "cache_push"
    /\ \E rc \in ToolCodes :
        LET token == "CACHIX_AUTH_TOKEN" \in environ
        IN
        IF PushTargets(token) # {}
        THEN LET i == CHOOSE k \in PushTargets(token) : \A j \in PushTargets(token) : k <= j
             IN  /\ stderr' = stderr \o <<Line("Pushing to cache", <<>>)>>
                 /\ Run("cachix push", <<cache[i].name>>, rc)
        ELSE UNCHANGED <<stderr, cmds>>
    /\ pc' = "execute_action"
    /\ UNCHANGED <<procs, call, environ, invocation, clockVars, sources_cache, repo, argv, exc, exitcode, cloneVars,
                   head, paths, cliVars, ON_EXIT, tmp>>

\* execute_action that forwards [ARGS] in reverse order.
execute_action_Reversed ==
    /\ pc = "execute_action"
    /\ IF "makes-action.sh" \in output
       THEN \E rc \in RetCodes :
               /\ Run("makes-action.sh",
                      <<out>> \o [i \in 1..Len(args) |-> args[Len(args) + 1 - i]], rc)
               /\ Raise(SystemExit(rc))
       ELSE /\ Raise(SystemExit(code))
            /\ cmds' = cmds
    /\ UNCHANGED <<procs, call, environ, invocation, clockVars, sources_cache, repo, argv, exitcode, cloneVars,
                   head, paths, cliVars, stderr, ON_EXIT, tmp>>

\* execute_action, and the raise SystemExit(code) of cli when it returns.
execute_action ==
    /\ pc = "execute_action"
    /\ IF "makes-action.sh" \in output
       THEN \E rc \in RetCodes :
               /\ Run("makes-action.sh", <<out>> \o args, rc)
               /\ Raise(SystemExit(rc))
       ELSE /\ Raise(SystemExit(code))
            /\ cmds' = cmds
    /\ UNCHANGED <<procs, call, environ, invocation, clockVars, sources_cache, repo, argv, exitcode, cloneVars,
                   head, paths, cliVars, stderr, ON_EXIT, tmp>>

\* ------------------------------------------------------------ main, cleanup

main ==
    /\ pc = "main"
    /\ IF exc.type = "Error"
       THEN /\ stderr' = stderr \o <<Line("[ERROR] ", <<>>)>>
            /\ exitcode' = ExitStatus(1)
       ELSE IF exc.type = "SystemExit"
       THEN /\ exitcode' = ExitStatus(exc.code)
            /\ stderr' = stderr
       ELSE /\ exitcode' = ExitStatus(1)
            /\ stderr' = stderr \o <<Line("Traceback", <<>>)>>
    /\ pc' = "cleanup"
    /\ UNCHANGED <<procs, call, environ, invocation, clockVars, sources_cache, repo, argv, exc, cloneVars,
                   head, paths, cliVars, cmds, ON_EXIT, tmp>>

\* for action in ON_EXIT: with suppress(BaseException): action()
\* Each rmtree(..., ignore_errors=True) removes its directory or fails silently.
\* The loop without suppress: it ends at the first action that fails.
RECURSIVE Rmtrees_StopAtFailure(_, _)
Rmtrees_StopAtFailure(dirs, failed) ==
    IF dirs = <<>> THEN <<>>
    ELSE IF Head(dirs) \in failed THEN <<Cmd("rmtree", Head(dirs), 1)>>
    ELSE <<Cmd("rmtree", Head(dirs), 0)>> \o Rmtrees_StopAtFailure(Tail(dirs), failed)

RECURSIVE Rmtrees(_, _)
Rmtrees(dirs, failed) ==
    IF dirs = <<>> THEN <<>>
    ELSE <<Cmd("rmtree", Head(dirs), IF Head(dirs) \in failed THEN 1 ELSE 0)>>
             \o Rmtrees(Tail(dirs), failed)

cleanup ==
    /\ pc = "cleanup"
    /\ \E failed \in SUBSET {ON_EXIT[i] : i \in 1..Len(ON_EXIT)} :
        /\ cmds' = cmds \o Rmtrees(ON_EXIT, failed)
        /\ tmp' = tmp \ ({ON_EXIT[i] : i \in 1..Len(ON_EXIT)} \ failed)
    /\ pc' = "done"
    /\ UNCHANGED <<procs, call, environ, invocation, clockVars, sources_cache, repo, argv, exc, exitcode, cloneVars,
                   head, paths, cliVars, stderr, ON_EXIT>>

\* The process has ended; the next one starts from the module's globals.
Reap ==
    /\ pc = "done"
    /\ pc' = "idle"
    /\ argv' = <<Prog>>
    /\ repo' = CleanRepo
    /\ environ' = {}
    /\ exc' = NoExc
    /\ exitcode' = NoExit
    /\ cache_key' = <<>> /\ remote' = <<>> /\ rev' = <<>> /\ cached_since' = NoAge
    /\ head' = NoHead
    /\ paths' = {}
    /\ attrs' = <<>> /\ cache' = <<>> /\ code' = NoExit /\ output' = {}
    /\ cmds' = <<>>
    /\ stderr' = <<>>
    /\ ON_EXIT' = <<>>
    /\ tmp' = {}
    /\ UNCHANGED <<procs, call, invocation, clockVars, sources_cache>>

\* ------------------------------------------------------------ specification

Next ==
    \/ Tick
    \/ Start
    \/ CliUsage
    \/ CloneSrc
    \/ GitInit
    \/ _clone_src_cache_get
    \/ GitFetch
    \/ GitCheckout
    \/ _clone_src_cache_refresh
    \/ GitDiffCached
    \/ GitLsModified
    \/ CopyPathsToHead
    \/ RmGit
    \/ _get_attrs
    \/ CliExcept
    \/ CliList
    \/ CliSelect
    \/ _get_cache
    \/ Build
    \/ cache_push
    \/ execute_action
    \/ main
    \/ cleanup
    \/ Reap

Spec == Init /\ [][Next]_vars

\* ------------------------------------------------------------ concurrent invocations
\*
\* NProcs invocations of `m github:o/r@v ...` run _clone_src at the same time.
\* The clone cache is read and written without a lock, so the steps are the
\* file system calls of _clone_src_cache_get and _clone_src_cache_refresh:
\* exists, getctime, rmtree (it empties the directory, then removes it) and
\* copytree (it makes the directory, then fills it).

ConcSrc    == SrcGithub
ConcKey    == ParseSrc(ConcSrc).cache_key
ConcRemote == ParseSrc(ConcSrc).remote
ConcEntry  == sources_cache[ConcKey]

mainVars ==
    <<call, environ, invocation, repo, argv, pc, exc, exitcode, cache_key, remote, rev, cached_since,
      head, paths, attrs, cache, code, output, cmds, stderr, ON_EXIT, tmp>>

InitConc ==
    /\ InitButCache
    /\ \E e \in {NoEntry, Entry(0, OriginTree)} :
        sources_cache = [k \in CacheKeys |-> IF k = ConcKey THEN e ELSE NoEntry]

Goto(p, label) == procs' = [procs EXCEPT ![p].pc = label]

\* The invocation ends with an exception: an Error of _clone_src, or an
\* exception of the file system call.
Fail(p, cause) == procs' = [procs EXCEPT ![p].pc = "failed", ![p].cause = cause]

SetEntry(e) == sources_cache' = [sources_cache EXCEPT ![ConcKey] = e]

ConcGitInit(p) ==
    /\ procs[p].pc = "git_init"
    /\ \E rc \in ToolCodes :
        IF rc # 0
        THEN Fail(p, "git init")
        ELSE procs' = [procs EXCEPT ![p].pc = "get_exists", ![p].remote = ConcRemote]
    /\ UNCHANGED <<sources_cache, clockVars, mainVars>>

\* if exists(cached):
ConcGetExists(p) ==
    /\ procs[p].pc = "get_exists"
    /\ Goto(p, IF ConcEntry.present THEN "get_getctime" ELSE "git_fetch")
    /\ UNCHANGED <<sources_cache, clockVars, mainVars>>

\* cached_since: float = time() - getctime(cached); if cached_since <= 86400.0:
ConcGetCtime(p) ==
    /\ procs[p].pc = "get_getctime"
    /\ IF ~ConcEntry.present
       THEN Fail(p, "FileNotFoundError")
       ELSE LET since == now - ConcEntry.ctime
            IN  procs' = [procs EXCEPT
                    ![p].cached_since = since,
                    ![p].remote = IF since <= TTL THEN Cached(ConcKey) ELSE @,
                    ![p].pc = IF since <= TTL THEN "git_fetch" ELSE "get_rmtree"]
    /\ UNCHANGED <<sources_cache, clockVars, mainVars>>

\* shutil.rmtree(cached) starts: it removes what is in the directory.
ConcRmtree(p) ==
    /\ procs[p].pc = "get_rmtree"
    /\ IF ~ConcEntry.present
       THEN Fail(p, "FileNotFoundError") /\ UNCHANGED sources_cache
       ELSE /\ SetEntry([ConcEntry EXCEPT !.complete = FALSE, !.ctime = now])
            /\ Goto(p, "get_rmdir")
    /\ UNCHANGED <<clockVars, mainVars>>

\* shutil.rmtree(cached) ends: it removes the directory.
ConcRmdir(p) ==
    /\ procs[p].pc = "get_rmdir"
    /\ IF ~ConcEntry.present
       THEN Fail(p, "FileNotFoundError") /\ UNCHANGED sources_cache
       ELSE SetEntry(NoEntry) /\ Goto(p, "git_fetch")
    /\ UNCHANGED <<clockVars, mainVars>>

\* git fetch from the remote that the lookup chose. A fetch from the cache
\* directory finds no repository when the directory is gone; from a directory
\* that is not whole it may fail too.
ConcGitFetch(p) ==
    /\ procs[p].pc = "git_fetch"
    /\ LET cached == procs[p].remote = Cached(ConcKey)
       IN  \E rc \in ToolCodes :
            IF cached /\ ~ConcEntry.present
            THEN Fail(p, "git fetch from a missing entry")
            ELSE IF rc # 0
            THEN Fail(p, IF cached /\ ~ConcEntry.complete
                         THEN "git fetch from an incomplete entry"
                         ELSE "git fetch")
            ELSE procs' = [procs EXCEPT
                    ![p].tree = IF cached THEN ConcEntry.tree ELSE OriginTree,
                    ![p].pc = "git_checkout"]
    /\ UNCHANGED <<sources_cache, clockVars, mainVars>>

ConcGitCheckout(p) ==
    /\ procs[p].pc = "git_checkout"
    /\ \E rc \in ToolCodes :
        IF rc # 0 THEN Fail(p, "git checkout") ELSE Goto(p, "refresh_exists")
    /\ UNCHANGED <<sources_cache, clockVars, mainVars>>

\* if cache_key and not exists(cached):
ConcRefreshExists(p) ==
    /\ procs[p].pc = "refresh_exists"
    /\ Goto(p, IF ConcEntry.present THEN "done" ELSE "copytree")
    /\ UNCHANGED <<sources_cache, clockVars, mainVars>>

\* shutil.copytree(head, cached) starts: os.makedirs(cached).
ConcCopytree(p) ==
    /\ procs[p].pc = "copytree"
    /\ IF ConcEntry.present
       THEN Fail(p, "FileExistsError") /\ UNCHANGED sources_cache
       ELSE /\ SetEntry([present |-> TRUE, complete |-> FALSE, ctime |-> now, born |-> now,
                         tree |-> procs[p].tree])
            /\ Goto(p, "copytree_end")
    /\ UNCHANGED <<clockVars, mainVars>>

\* shutil.copytree(head, cached) ends: the files are copied. The entry is
\* whole unless an rmtree is at work in it.
ConcCopytreeEnd(p) ==
    /\ procs[p].pc = "copytree_end"
    /\ IF ~ConcEntry.present
       THEN Fail(p, "FileNotFoundError") /\ UNCHANGED sources_cache
       ELSE /\ SetEntry([ConcEntry EXCEPT
                    !.complete = ~\E q \in 1..NProcs : procs[q].pc = "get_rmdir",
                    !.ctime = now, !.born = now])
            /\ Goto(p, "done")
    /\ UNCHANGED <<clockVars, mainVars>>

NextConc ==
    \/ Tick
    \/ \E p \in 1..NProcs :
        \/ ConcGitInit(p)
        \/ ConcGetExists(p)
        \/ ConcGetCtime(p)
        \/ ConcRmtree(p)
        \/ ConcRmdir(p)
        \/ ConcGitFetch(p)
        \/ ConcGitCheckout(p)
        \/ ConcRefreshExists(p)
        \/ ConcCopytree(p)
        \/ ConcCopytreeEnd(p)

SpecConc == InitConc /\ [][NextConc]_vars

\* The concurrent invocations, started with an empty clone cache.
SpecRace == Init /\ [][NextConc]_vars

\* ------------------------------------------------------------ pure functions
\*
\* The reference parsers and _nix_build, applied to arguments drawn from
\* bounded sets. call holds the function, its arguments and, once it has been
\* applied, its result.

Owners == {<<"a">>, <<"a", "-", "b">>, <<"a", "/", "b">>}
RepoNames == {<<"c">>, <<"b", "-", "c">>}
Revs == {<<"v">>}

\* The references <provider>:<owner>/<repo>@<rev> over these components.
HostedRefs ==
    {p \o o \o <<"/">> \o r \o <<"@">> \o v :
        p \in {GithubPrefix, GitlabPrefix}, o \in Owners, r \in RepoNames, v \in Revs}

\* _if(condition, *value)
_if(condition, value) == IF condition THEN value ELSE <<>>

\* " ".join(strings); a string is the sequence of its pieces.
RECURSIVE JoinSpace(_)
JoinSpace(ss) ==
    IF ss = <<>> THEN <<>>
    ELSE IF Len(ss) = 1 THEN <<Head(ss)>>
    ELSE <<Head(ss), " ">> \o JoinSpace(Tail(ss))

\* "false" if K8S_COMPAT else "true", with K8S_COMPAT ignored.
Sandbox_AlwaysOn(k8s) == "true"

\* "false" if K8S_COMPAT else "true"
Sandbox(k8s) == IF k8s THEN "false" ELSE "true"

\* The argument list of _nix_build; each argument is the sequence of the
\* pieces its f-string joins. a = [stable, k8s, has_cache, cache, head, out,
\* attr], has_cache standing for `cache is not None`.
_nix_build(a) ==
    LET substituters ==
            IF ~a.has_cache THEN <<"https://cache.nixos.org">>
            ELSE JoinSpace([i \in 1..Len(a.cache) |-> a.cache[i].url])
        trusted_pub_keys ==
            IF ~a.has_cache
            THEN <<"cache.nixos.org-1:6NCHdD59X431o0gWypbMrAURkbJ16ZPMQFGspcDShjY=">>
            ELSE JoinSpace([i \in 1..Len(a.cache) |-> a.cache[i].pubKey])
    IN  Concat(<<
            _if(a.stable, << <<"__NIX_STABLE__", "/bin/nix-build">> >>),
            _if(~a.stable, << <<"__NIX_UNSTABLE__", "/bin/nix">> >>),
            _if(~a.stable, << <<"--experimental-features">>, <<"flakes nix-command">> >>),
            _if(~a.stable, << <<"build">> >>),
            _if(a.stable, << <<"--argstr">>, <<"makesExecutionId">>, <<"uuid().hex">> >>),
            _if(a.stable, << <<"--argstr">>, <<"makesSrc">>, <<"__MAKES_SRC__">> >>),
            _if(a.stable, << <<"--argstr">>, <<"projectSrc">>, <<a.head>> >>),
            _if(a.stable, << <<"--attr">>, <<a.attr>> >>),
            << <<"--option">>, <<"cores">>, <<"0">> >>,
            _if(~a.stable, << <<"--impure">> >>),
            << <<"--option">>, <<"narinfo-cache-negative-ttl">>, <<"1">> >>,
            << <<"--option">>, <<"narinfo-cache-positive-ttl">>, <<"1">> >>,
            << <<"--option">>, <<"max-jobs">>, <<"auto">> >>,
            << <<"--option">>, <<"substituters">>, substituters >>,
            << <<"--option">>, <<"trusted-public-keys">>, trusted_pub_keys >>,
            << <<"--option">>, <<"sandbox">>, <<Sandbox(a.k8s)>> >>,
            _if(a.out # "", << <<"--out-link">>, <<a.out>> >>),
            _if(a.out = "", << <<"--no-out-link">> >>),
            << <<"--show-trace">> >>,
            _if(a.stable, << <<"__MAKES_SRC__", "/src/evaluator/default.nix">> >>),
            _if(~a.stable, << <<a.attr>> >>)
        >>)

\* The arguments _nix_build is called with: cache=None or a configuration,
\* out="" (its default) or a path.
NixBuildArgs ==
    [stable : BOOLEAN, k8s : BOOLEAN, has_cache : {TRUE},
     cache : CacheConfigs, head : {"/t/m"}, out : {"", "/t/o/result-a"},
     attr : {"config.attrs", "config.outputs.\"/a\""}]
    \cup
    [stable : BOOLEAN, k8s : BOOLEAN, has_cache : {FALSE},
     cache : {<<>>}, head : {"/t/m"}, out : {"", "/t/x"},
     attr : {"config.attrs", "config.outputs.\"/a\""}]

NoResult == <<>>

PureCalls ==
    {[fn |-> "_clone_src", args |-> <<a, b>>, result |-> NoResult] :
        a \in HostedRefs, b \in HostedRefs}
    \cup {[fn |-> "_nix_build", args |-> a, result |-> NoResult] : a \in NixBuildArgs}

pureFrame ==
    <<procs, environ, invocation, now, ticks, sources_cache, repo, argv, pc, exc, exitcode,
      cache_key, remote, rev, cached_since, head, paths, attrs, cache, code,
      output, cmds, stderr, ON_EXIT, tmp>>

InitPure ==
    /\ Globals
    /\ sources_cache = [k \in CacheKeys |-> NoEntry]
    /\ call \in PureCalls

\* The if/elif chain of _clone_src on each of two references.
ParseRefs ==
    /\ call.fn = "_clone_src"
    /\ call.result = NoResult
    /\ call' = [call EXCEPT !.result = <<ParseSrc(call.args[1]), ParseSrc(call.args[2])>>]
    /\ UNCHANGED pureFrame

NixBuild ==
    /\ call.fn = "_nix_build"
    /\ call.result = NoResult
    /\ call' = [call EXCEPT !.result = _nix_build(call.args)]
    /\ UNCHANGED pureFrame

NextPure ==
    \/ ParseRefs
    \/ NixBuild

SpecPure == InitPure /\ [][NextPure]_vars

\* ------------------------------------------------------------ what a run shows

CmdsOf(c) == {i \in 1..Len(cmds) : cmds[i].cmd = c}
Ran(c) == CmdsOf(c) # {}
Succeeded(c) == \E i \in CmdsOf(c) : cmds[i].rc = 0

\* main has called sys.exit.
Ended == exitcode # NoExit

\* An [OUTPUT] was given, the enumeration gave a manifest, and it is (not) in it.
Enumerated == Succeeded("nix build config.attrs")
Known == Len(argv) >= 3 /\ \E i \in 1..Len(attrs) : attrs[i] = argv[3]
Unknown == Len(argv) >= 3 /\ Enumerated /\ ~Known

Printed(text, val) == \E j \in 1..Len(stderr) : stderr[j] = Line(text, val)

\* ------------------------------------------------------------ C1

\* C1: when the main build returns a non-zero code c, nothing but the exit
\* path follows, neither the cache push nor the action script is run, and the
\* exit status is c.
C1_BuildFailurePropagates ==
    \A i \in CmdsOf("nix build config.outputs") :
        cmds[i].rc # 0 =>
            /\ pc \in {"main", "cleanup", "done"}
            /\ ~Ran("cachix push")
            /\ ~Ran("makes-action.sh")
            /\ Ended => exitcode = cmds[i].rc

C1_Witness ==
    /\ pc = "done"
    /\ Known
    /\ \E i \in CmdsOf("nix build config.outputs") : cmds[i].rc = 7
    /\ exitcode = 7

\* ------------------------------------------------------------ C2

\* The out-link of each [OUTPUT] of the model: OUT_BASE/result<name with "-" for "/">.
C2_OutOf(a) ==
    IF a = AttrA
    THEN <<"/", "t", "/", "o", "/", "r", "e", "s", "u", "l", "t", "-", "a">>
    ELSE <<"/", "t", "/", "o", "/", "r", "e", "s", "u", "l", "t", "-", "b", "-", "c">>

\* C2: after a main build that returned 0 and left the action script in its
\* output, the script has been run exactly once, with the output path followed
\* by the trailing arguments of the command line in their order, and the exit
\* status is the script's return code.
C2_ActionGetsOutAndArgs ==
    (Ended /\ Succeeded("nix build config.outputs") /\ "makes-action.sh" \in output) =>
        /\ Cardinality(CmdsOf("makes-action.sh")) = 1
        /\ \A i \in CmdsOf("makes-action.sh") :
            /\ Len(cmds[i].arg) = Len(argv) - 2
            /\ cmds[i].arg[1] = C2_OutOf(argv[3])
            /\ \A j \in 4..Len(argv) : cmds[i].arg[j - 2] = argv[j]
            /\ exitcode = cmds[i].rc

C2_Witness ==
    /\ pc = "done"
    /\ argv[Len(argv)] = ArgX
    /\ \E i \in CmdsOf("makes-action.sh") : cmds[i].rc = 7 /\ Len(cmds[i].arg) = 3
    /\ exitcode = 7

\* ------------------------------------------------------------ C3

\* C3: the exit status is 0 only after a main build that returned 0 whose
\* output has no action script or whose action script returned 0; it is 0
\* after a main build that returned 0 without an action script; and it is the
\* action script's code if that ran, else the main build's if that ran, else 1.
C3_ExitCodes ==
    Ended =>
        LET builds  == CmdsOf("nix build config.outputs")
            actions == CmdsOf("makes-action.sh")
        IN  /\ exitcode = 0 =>
                /\ \E i \in builds : cmds[i].rc = 0
                /\ \/ "makes-action.sh" \notin output
                   \/ \E i \in actions : cmds[i].rc = 0
            /\ ((\E i \in builds : cmds[i].rc = 0) /\ "makes-action.sh" \notin output)
                   => exitcode = 0
            /\ exitcode \in
                   IF actions # {} THEN {cmds[i].rc : i \in actions}
                   ELSE IF builds # {} THEN {cmds[i].rc : i \in builds}
                   ELSE {1}

C3_Witness ==
    /\ pc = "done"
    /\ exitcode = 0
    /\ "makes-action.sh" \notin output
    /\ Succeeded("nix build config.outputs")

\* ------------------------------------------------------------ C4

\* C4: when the requested output is not in the enumerated list, nothing but
\* the exit path follows the enumeration: no cache-configuration fetch, main
\* build, cache push or action script is run, and the exit status is 1.
C4_UnknownOutputExitsOne ==
    Unknown =>
        /\ pc \in {"got_attrs", "main", "cleanup", "done"}
        /\ ~Ran("nix build config.cacheAsJson")
        /\ ~Ran("nix build config.outputs")
        /\ ~Ran("cachix push")
        /\ ~Ran("makes-action.sh")
        /\ Ended => exitcode = 1

C4_Witness ==
    /\ pc = "done"
    /\ Unknown
    /\ attrs # <<>>
    /\ exitcode = 1

\* ------------------------------------------------------------ C5

C6_SourceOnlyExitsOne ==
    Len(argv) = 2 =>
        /\ pc \notin {"get_cache", "build", "cache_push", "execute_action"}
        /\ ~Ran("nix build config.cacheAsJson")
        /\ ~Ran("nix build config.outputs")
        /\ ~Ran("cachix push")
        /\ ~Ran("makes-action.sh")
        /\ Ended => exitcode = 1

C6_Witness ==
    /\ pc = "done"
    /\ Len(argv) = 2
    /\ Succeeded("git checkout")
    /\ Ran("nix build config.attrs")
    /\ exc.type = "Error"
    /\ exitcode = 1

\* ------------------------------------------------------------ C8

\* The directory of the entry of the invocation's cache key.
C8_Dir == SOURCES_CACHE \o <<"/">> \o cache_key

\* C8: for a non-empty cache key, after a lookup that found an entry aged at
\* most 86400 seconds every fetch is from the entry's directory and none from
\* the original remote; after a lookup that found an older entry, the entry
\* is gone when the fetch starts, every fetch is from the original remote, and
\* once fetch and checkout have succeeded and the refresh has run, the key has
\* an entry again, aged at most 86400 seconds.
C8_TtlDecidesFetchSource ==
    (cache_key # <<>> /\ cached_since # NoAge) =>
        IF cached_since <= 86400
        THEN /\ sources_cache[cache_key].present
             /\ \A i \in CmdsOf("git fetch") :
                 /\ cmds[i].arg = C8_Dir
                 /\ cmds[i].arg # ParseSrc(argv[2]).remote
        ELSE /\ pc = "git_fetch" => ~sources_cache[cache_key].present
             /\ \A i \in CmdsOf("git fetch") :
                 /\ cmds[i].arg = ParseSrc(argv[2]).remote
                 /\ cmds[i].arg # C8_Dir
             /\ (Succeeded("git checkout") /\ pc # "cache_refresh") =>
                 /\ sources_cache[cache_key].present
                 /\ now - sources_cache[cache_key].ctime <= 86400

C8_Witness ==
    /\ cache_key # <<>>
    /\ cached_since > 86400
    /\ pc = "rm_git"
    /\ sources_cache[cache_key].present
    /\ sources_cache[cache_key].ctime = now

\* ------------------------------------------------------------ C9

C9_Local == Len(argv) >= 2 /\ is_src_local(argv[2])

\* C9: an entry appears in the clone cache only in the refresh step, only for
\* the invocation's (non-empty) cache key, only where there was none, and only
\* after git init, fetch and checkout returned 0; no step changes an entry
\* that exists other than by deleting it; an invocation on a local reference
\* fetches from the original remote and changes nothing in the clone cache.
C9_OnlyRefreshWrites ==
    [][/\ \A k \in CacheKeys :
            (sources_cache'[k] # sources_cache[k] /\ sources_cache'[k].present) =>
                /\ pc = "cache_refresh"
                /\ cache_key # <<>>
                /\ k = cache_key
                /\ ~sources_cache[k].present
                /\ Succeeded("git init")
                /\ Succeeded("git fetch")
                /\ Succeeded("git checkout")
       /\ C9_Local => sources_cache' = sources_cache
       /\ C9_Local => \A i \in CmdsOf("git fetch") : cmds[i].arg = CWD]_vars

C9_Witness ==
    /\ pc = "rm_git"
    /\ cache_key # <<>>
    /\ cached_since = NoAge
    /\ sources_cache[cache_key] = Entry(now, OriginTree)
    /\ now > 0

\* ------------------------------------------------------------ C7

\* The paths that git diff --cached --name-only and git ls-files --modified
\* list: staged, or modified or deleted on disk.
C7_Listed(p) ==
    \/ repo.index[p] # repo.head[p]
    \/ repo.index[p] # Absent /\ repo.wd[p] # repo.index[p]

\* C7 as stated: on a local reference, once the two listings have succeeded,
\* _get_head does not fail, and the checkout it returns holds the working
\* copy's file for every listed path that exists there, no file for a listed
\* path that does not, HEAD's file for every other path, and no .git.
C7_AsStated ==
    (C9_Local /\ Succeeded("git ls-files --modified") /\ pc # "copy_paths") =>
        /\ exc.type # "Uncaught"
        /\ \A p \in Paths :
            head.files[p] = IF C7_Listed(p) THEN repo.wd[p] ELSE repo.head[p]
        /\ pc # "rm_git" => ~head.git

\* ------------------------------------------------------------ C10

\* C10 as stated: with invocations that share a cache key and interleave their
\* reads, deletes and copies of its entry, an invocation fails only by a git
\* command that failed on the original remote or on a whole entry, and every
\* checkout is the requested revision's tree.
C10_AsStated ==
    \A p \in 1..NProcs :
        /\ procs[p].pc = "failed" =>
               procs[p].cause \in {"git init", "git fetch", "git checkout"}
        /\ procs[p].pc \in {"git_checkout", "refresh_exists", "copytree", "copytree_end", "done"}
               => procs[p].tree = OriginTree

\* ------------------------------------------------------------ C11

\* The exit status that follows a main build that returned 0: the action
\* script's, or 0 without one.
AfterBuildStatus ==
    IF "makes-action.sh" \in output
    THEN \E j \in CmdsOf("makes-action.sh") : exitcode = ExitStatus(cmds[j].rc)
    ELSE exitcode = 0

\* C11: a push is run only after a main build that returned 0, only with the
\* credential in the environment, and only to the first cachix record of the
\* cache configuration; there is at most one push; and an invocation that
\* pushed nothing ends as one with an empty cache configuration would.
C11_PushOnlyWhenConfigured ==
    /\ \A i \in CmdsOf("cachix push") :
        /\ code = 0
        /\ "CACHIX_AUTH_TOKEN" \in environ
        /\ \E k \in 1..Len(cache) :
            /\ cache[k].type = "cachix"
            /\ \A j \in 1..(k - 1) : cache[j].type # "cachix"
            /\ cmds[i].arg = <<cache[k].name>>
    /\ Cardinality(CmdsOf("cachix push")) <= 1
    /\ (Ended /\ code = 0 /\ ~Ran("cachix push")) => AfterBuildStatus

\* A push to the first of two cachix records, after a record of another type.
C11_Witness ==
    /\ Ended
    /\ cache = <<OtherRec, CachixRec, SecondCachixRec>>
    /\ \E i \in CmdsOf("cachix push") : cmds[i].arg = <<"n1">>

\* ------------------------------------------------------------ C12

\* C12: whatever code the push returns, the action script of the output is
\* run after it with the out-link and [ARGS], and the exit status is the
\* action's, or 0 without an action script.
C12_PushCodeIgnored ==
    \A i \in CmdsOf("cachix push") :
        /\ pc \in {"execute_action", "main", "cleanup", "done"}
        /\ exc.type # "Error"
        /\ Ended =>
            /\ AfterBuildStatus
            /\ "makes-action.sh" \in output =>
                   \E j \in CmdsOf("makes-action.sh") :
                       j > i /\ cmds[j].arg = <<out>> \o args

\* A push that failed, followed by the action script with two [ARGS].
C12_Witness ==
    /\ Ended
    /\ \E i \in CmdsOf("cachix push") : cmds[i].rc # 0
    /\ \E j \in CmdsOf("makes-action.sh") : cmds[j].rc = 7 /\ Len(cmds[j].arg) = 3

\* ------------------------------------------------------------ C13

\* The child processes whose non-zero code raises Error.
C13_Steps ==
    {"git init", "git fetch", "git checkout", "git diff --cached",
     "git ls-files --modified", "nix build config.attrs", "nix build config.cacheAsJson"}

\* C13: once one of these returned a non-zero code, the invocation is on its
\* way out with an Error: no child process follows but the cleanup's, the clone
\* cache has no entry for a key whose lookup missed, and the exit status is 1.
C13_FailureAborts ==
    \A i \in 1..Len(cmds) :
        (cmds[i].cmd \in C13_Steps /\ cmds[i].rc # 0) =>
            /\ \A j \in (i + 1)..Len(cmds) : cmds[j].cmd = "rmtree"
            /\ pc \in {"cli_except", "main", "cleanup", "done"}
            /\ exc.type = "Error"
            /\ (cache_key # <<>> /\ cmds[i].cmd \in {"git fetch", "git checkout"}
                    /\ remote # Cached(cache_key))
                   => ~sources_cache[cache_key].present
            /\ Ended => exitcode = 1

\* A hosted reference whose checkout failed after a fetch from the remote.
C13_Witness ==
    /\ pc = "done"
    /\ cache_key # <<>> /\ remote # Cached(cache_key)
    /\ \E i \in CmdsOf("git checkout") : cmds[i].rc # 0

\* ------------------------------------------------------------ C14

\* C14: when the process has ended, each action of ON_EXIT has been run once,
\* in whatever way the invocation ended and whichever of them failed; none is
\* run before main has ended; and the exit status is the one main chose.
C14_CleanupRunsAll ==
    /\ pc = "done" =>
        /\ \A k \in 1..Len(ON_EXIT) :
            Cardinality({i \in CmdsOf("rmtree") : cmds[i].arg = ON_EXIT[k]}) = 1
        /\ Cardinality(CmdsOf("rmtree")) = Len(ON_EXIT)
        /\ exitcode = IF exc.type = "SystemExit" THEN ExitStatus(exc.code) ELSE 1
    /\ pc \notin {"done", "idle"} => ~Ran("rmtree")

\* The first of two cleanup actions failed, the second ran, after an action
\* script that returned 7.
C14_Witness ==
    /\ pc = "done"
    /\ exitcode = 7
    /\ Len(ON_EXIT) = 2
    /\ \E i, j \in CmdsOf("rmtree") :
        /\ cmds[i].arg = ON_EXIT[1] /\ cmds[i].rc # 0
        /\ cmds[j].arg = ON_EXIT[2] /\ cmds[j].rc = 0

\* ------------------------------------------------------------ C15

\* (provider, owner, repo, rev): the groups the provider's regex matches.
C15_Tuple(ref) ==
    LET p == IF StartsWith(ref, GithubPrefix) THEN GithubPrefix ELSE GitlabPrefix
        m == HostedGroups(p, ref)
    IN  <<p, m.owner, m.repo, m.rev>>

\* C15 as stated: two hosted references whose (provider, owner, repo, rev)
\* differ never derive the same cache key.
C15_AsStated ==
    (call.fn = "_clone_src" /\ call.result # NoResult) =>
        (C15_Tuple(call.args[1]) # C15_Tuple(call.args[2])
            => call.result[1].cache_key # call.result[2].cache_key)

\* ------------------------------------------------------------ C16

\* C16 as stated: once the process has ended and every cleanup action has
\* succeeded, none of the temporary files and directories it made remains.
C16_AsStated ==
    (pc = "done" /\ \A i \in CmdsOf("rmtree") : cmds[i].rc = 0) => tmp = {}

\* ------------------------------------------------------------ C17

\* C17 as stated: after the lookup for a non-empty cache key, a download has
\* been announced whenever the remote is not the cached directory, and the use
\* of the cache has been announced exactly when it is.
C17_AsStated ==
    (pc = "git_fetch" /\ cache_key # <<>>) =>
        /\ remote # Cached(cache_key) => Printed("Downloading: ", src)
        /\ remote = Cached(cache_key) <=> Printed("Using cached version of: ", src)

\* ------------------------------------------------------------ C18

C18_Count(r, x) == Cardinality({i \in 1..Len(r) : r[i] = x})

C18_HasRun(r, sub) ==
    \E i \in 1..(Len(r) - Len(sub) + 1) : SubSeq(r, i, i + Len(sub) - 1) = sub

\* --option <name> <value>, and the name nowhere else.
C18_Option(r, name, value) ==
    /\ C18_HasRun(r, << <<"--option">>, <<name>>, <<value>> >>)
    /\ C18_Count(r, <<name>>) = 1

\* C18: whatever the mode, the flag, the cache configuration and the out-link,
\* the argument list of _nix_build sets cores to 0, both narinfo TTLs to 1,
\* max-jobs to auto, sandbox to false with K8S_COMPAT and to true without,
\* asks for the trace, and has --out-link <out> when out is given and
\* --no-out-link when it is not, never both.
C18_CommonOptions ==
    (call.fn = "_nix_build" /\ call.result # NoResult) =>
        LET r == call.result
            a == call.args
        IN  /\ C18_Option(r, "cores", "0")
            /\ C18_Option(r, "narinfo-cache-negative-ttl", "1")
            /\ C18_Option(r, "narinfo-cache-positive-ttl", "1")
            /\ C18_Option(r, "max-jobs", "auto")
            /\ C18_Option(r, "sandbox", IF a.k8s THEN "false" ELSE "true")
            /\ C18_Count(r, <<"--show-trace">>) = 1
            /\ IF a.out # ""
               THEN /\ C18_HasRun(r, << <<"--out-link">>, <<a.out>> >>)
                    /\ C18_Count(r, <<"--out-link">>) = 1
                    /\ C18_Count(r, <<"--no-out-link">>) = 0
               ELSE /\ C18_Count(r, <<"--out-link">>) = 0
                    /\ C18_Count(r, <<"--no-out-link">>) = 1

\* The unstable mode with K8S_COMPAT, a cache configuration of three records
\* and no out-link.
C18_Witness ==
    /\ call.fn = "_nix_build"
    /\ call.result # NoResult
    /\ ~call.args.stable /\ call.args.k8s
    /\ call.args.has_cache /\ Len(call.args.cache) = 3
    /\ call.args.out = ""

\* ------------------------------------------------------------ C19

C20_AsStated ==
    \A p \in 1..NProcs :
        procs[p].pc = "failed" =>
            procs[p].cause \in {"git init", "git fetch", "git checkout",
                                "git fetch from a missing entry",
                                "git fetch from an incomplete entry"}

====
